---- MODULE Spec2Model ----
(***************************************************************************)
(* A model of the tagflag argument binder: the registry built from a       *)
(* command struct (parser.parseStruct, addFlag, addPos, fieldArity), the   *)
(* token parser (parser.parse, parseAny, parsePosArgs, parseFlag,          *)
(* parsePos, indexPosArg, minPos) and the value marshalers                 *)
(* (valueMarshaler, typeMarshalFuncs).                                     *)
(*                                                                         *)
(* Strings are sequences of one-character strings, so that prefix tests,   *)
(* the split on '=' and the scanners work on the characters as the Go      *)
(* code does.                                                              *)
(***************************************************************************)
EXTENDS Integers, Sequences, FiniteSets, TLC

VARIABLES
    sc,        \* the scenario: the command struct's fields and the parse options
    input,     \* the token list handed to parse (never changes)
    posArgs,   \* parser.posArgs
    flags,     \* parser.flags, in registration order (keys are unique)
    excess,    \* the field index of the record's excess sink, 0 when it has none
    numPos,    \* parser.numPos
    args,      \* the tokens the running loop still holds
    pc,        \* "parseAny" | "parsePosArgs" | "done"
    rec,       \* the command struct's field values, by field index
    err,       \* the outcome parse returns (class "nil" while running / on success)
    took,      \* per input token, what consumed it (bookkeeping of the run)
    call,      \* one call of a marshaler of marshalers.go: its strategy, destination, token
    par        \* the second parser of a pair of parse invocations, and who is running

vars == <<sc, input, posArgs, flags, excess, numPos, args, pc, rec, err, took,
          call, par>>

\* what a step of one parser never touches
aux == <<call, par>>

-----------------------------------------------------------------------------
(* Bounds *)

\* longest token list handed to parse
MaxArgs == 4

-----------------------------------------------------------------------------
(* Strings as character sequences *)

Drop(s, n) == SubSeq(s, n + 1, Len(s))

Take(s, n) == SubSeq(s, 1, n)

HasPrefix(s, p) == Len(s) >= Len(p) /\ Take(s, Len(p)) = p

\* strings.IndexByte, 1-based; 0 when the byte is absent (Go: -1)
IndexByte(s, c) ==
    IF \E i \in 1..Len(s) : s[i] = c
    THEN CHOOSE i \in 1..Len(s) : s[i] = c /\ \A j \in 1..(i - 1) : s[j] # c
    ELSE 0

Upper ==
    {"A", "B", "C", "D", "E", "F", "G", "H", "I", "J", "K", "L", "M",
     "N", "O", "P", "Q", "R", "S", "T", "U", "V", "W", "X", "Y", "Z"}

ToLowerChar(c) ==
    CASE c = "A" -> "a" [] c = "B" -> "b" [] c = "C" -> "c" [] c = "D" -> "d"
      [] c = "E" -> "e" [] c = "F" -> "f" [] c = "G" -> "g" [] c = "H" -> "h"
      [] c = "I" -> "i" [] c = "J" -> "j" [] c = "K" -> "k" [] c = "L" -> "l"
      [] c = "M" -> "m" [] c = "N" -> "n" [] c = "O" -> "o" [] c = "P" -> "p"
      [] c = "Q" -> "q" [] c = "R" -> "r" [] c = "S" -> "s" [] c = "T" -> "t"
      [] c = "U" -> "u" [] c = "V" -> "v" [] c = "W" -> "w" [] c = "X" -> "x"
      [] c = "Y" -> "y" [] c = "Z" -> "z"
      [] OTHER -> c

ToUpperChar(c) ==
    CASE c = "a" -> "A" [] c = "b" -> "B" [] c = "c" -> "C" [] c = "d" -> "D"
      [] c = "e" -> "E" [] c = "f" -> "F" [] c = "g" -> "G" [] c = "h" -> "H"
      [] c = "i" -> "I" [] c = "j" -> "J" [] c = "k" -> "K" [] c = "l" -> "L"
      [] c = "m" -> "M" [] c = "n" -> "N" [] c = "o" -> "O" [] c = "p" -> "P"
      [] c = "q" -> "Q" [] c = "r" -> "R" [] c = "s" -> "S" [] c = "t" -> "T"
      [] c = "u" -> "U" [] c = "v" -> "V" [] c = "w" -> "W" [] c = "x" -> "X"
      [] c = "y" -> "Y" [] c = "z" -> "Z"
      [] OTHER -> c

ToLower(s) == [i \in 1..Len(s) |-> ToLowerChar(s[i])]

ToUpper(s) == [i \in 1..Len(s) |-> ToUpperChar(s[i])]

-----------------------------------------------------------------------------
(* Errors *)

NoArg == <<>>

\* the nil error
Nil == [class |-> "nil", msg |-> "", arg |-> NoArg, cause |-> ""]

\* userError{msg}
userError(msg, a) == [class |-> "user", msg |-> msg, arg |-> a, cause |-> ""]

\* fmt.Errorf(...): an error that is not a userError
otherError(msg, a, cause) == [class |-> "other", msg |-> msg, arg |-> a, cause |-> cause]

ErrDefaultHelp == [class |-> "help", msg |-> "help requested", arg |-> NoArg, cause |-> ""]

\* a Go runtime panic (slice bounds out of range, nil dereference)
RuntimePanic(msg) == [class |-> "panic", msg |-> msg, arg |-> NoArg, cause |-> ""]

-----------------------------------------------------------------------------
(* Types of the command struct's fields *)

\* reflect.Kind of a field type
Kind(t) ==
    CASE t = "bool" -> "Bool"
      [] t = "string" -> "String"
      [] t = "int64" -> "Int64"
      [] t = "[]string" -> "Slice"
      [] t = "[]int64" -> "Slice"
      [] t = "*net.TCPAddr" -> "Ptr"
      [] t = "*bool" -> "Ptr"
      [] t = "*int64" -> "Ptr"
      [] t = "*string" -> "Ptr"
      [] OTHER -> "Struct"

\* reflect.Type.Elem of a slice type
Elem(t) == IF t = "[]int64" THEN "int64" ELSE "string"

\* reflect.Zero: nil pointers and empty slices are <<>>, a pointer is <<pointee>>
Zero(t) ==
    CASE Kind(t) = "Bool" -> FALSE
      [] Kind(t) = "Int64" -> 0
      [] OTHER -> <<>>

\* the types init() registers a converter for
HasMarshalFunc(t) == t \in {"*net.TCPAddr"}

\* the explicitValueRequired argument init() passes to addMarshalFunc
explicitValueRequired(t) == t = "*net.TCPAddr"

\* net.ResolveTCPAddr("tcp", s) of the standard library: a host:port string (or
\* the empty string) resolves, a string without a colon is an error and the
\* returned pointer is nil
ResolveTCPAddr(s) ==
    IF s = <<>> \/ IndexByte(s, ":") # 0
    THEN [err |-> Nil, val |-> <<s>>]
    ELSE [err |-> otherError("missing port in address", s, ""), val |-> <<>>]

-----------------------------------------------------------------------------
(* fmt.Sscan(s, &v) of the standard library, for the kinds the fields have *)

IsSpace(c) == c = " "

Digits == {"0", "1", "2", "3", "4", "5", "6", "7", "8", "9"}

DigitVal(c) ==
    CASE c = "0" -> 0 [] c = "1" -> 1 [] c = "2" -> 2 [] c = "3" -> 3 [] c = "4" -> 4
      [] c = "5" -> 5 [] c = "6" -> 6 [] c = "7" -> 7 [] c = "8" -> 8 [] OTHER -> 9

RECURSIVE SkipSpace(_)
SkipSpace(s) == IF s # <<>> /\ IsSpace(s[1]) THEN SkipSpace(Tail(s)) ELSE s

\* the length of the longest prefix of s whose characters satisfy the set cs
RECURSIVE RunLen(_, _)
RunLen(s, cs) == IF s # <<>> /\ s[1] \in cs THEN 1 + RunLen(Tail(s), cs) ELSE 0

RECURSIVE WordLen(_)
WordLen(s) == IF s # <<>> /\ ~IsSpace(s[1]) THEN 1 + WordLen(Tail(s)) ELSE 0

RECURSIVE DecVal(_, _)
DecVal(s, acc) == IF s = <<>> THEN acc ELSE DecVal(Tail(s), 10 * acc + DigitVal(s[1]))

\* a string operand takes the first space-delimited word
ScanString(s, old) ==
    LET w == SkipSpace(s) IN
    IF w = <<>> THEN [ok |-> FALSE, val |-> old, why |-> "unexpected EOF"]
    ELSE [ok |-> TRUE, val |-> Take(w, WordLen(w)), why |-> ""]

\* ss.scanBool: 0/1, t[rue], f[alse]; any other first character scans as false
ScanBool(s, old) ==
    LET w == SkipSpace(s)
        r == Tail(w)
        bad == [ok |-> FALSE, val |-> old, why |-> "syntax error scanning boolean"]
    IN
    IF w = <<>> THEN [ok |-> FALSE, val |-> old, why |-> "unexpected EOF"]
    ELSE IF w[1] = "1" THEN [ok |-> TRUE, val |-> TRUE, why |-> ""]
    ELSE IF w[1] \in {"t", "T"}
         THEN IF r # <<>> /\ r[1] \in {"r", "R"} /\ ~HasPrefix(ToLower(r), <<"r", "u", "e">>)
              THEN bad
              ELSE [ok |-> TRUE, val |-> TRUE, why |-> ""]
    ELSE IF w[1] \in {"f", "F"}
         THEN IF r # <<>> /\ r[1] \in {"a", "A"} /\ ~HasPrefix(ToLower(r), <<"a", "l", "s", "e">>)
              THEN bad
              ELSE [ok |-> TRUE, val |-> FALSE, why |-> ""]
    ELSE [ok |-> TRUE, val |-> FALSE, why |-> ""]

\* ss.scanInt for tokens in base 10: an optional sign and the leading digits
ScanInt(s, old) ==
    LET w == SkipSpace(s)
        neg == w # <<>> /\ w[1] = "-"
        d == IF w # <<>> /\ w[1] \in {"-", "+"} THEN Tail(w) ELSE w
        n == RunLen(d, Digits)
    IN
    IF w = <<>> \/ d = <<>> THEN [ok |-> FALSE, val |-> old, why |-> "unexpected EOF"]
    ELSE IF n = 0 THEN [ok |-> FALSE, val |-> old, why |-> "expected integer"]
    ELSE [ok |-> TRUE,
          val |-> IF neg THEN 0 - DecVal(Take(d, n), 0) ELSE DecVal(Take(d, n), 0),
          why |-> ""]

Sscan(t, s, old) ==
    CASE Kind(t) = "Bool" -> ScanBool(s, old)
      [] Kind(t) = "Int64" -> ScanInt(s, old)
      [] OTHER -> ScanString(s, old)

-----------------------------------------------------------------------------
(* Marshalers *)

\* the closure addMarshalFunc stores in typeMarshalFuncs: the explicit-value
\* check, then the converter's first result is Set, then its error returned
\* the converter closure without its explicitValueRequired test
MarshalFuncNoCheck(t, s, ev, old) == ResolveTCPAddr(s)

MarshalFunc(t, s, ev, old) ==
    IF explicitValueRequired(t) /\ ~ev
    THEN [err |-> userError("explicit value required", NoArg), val |-> old]
    ELSE ResolveTCPAddr(s)

\* valueMarshaler(v) is nil for a pointer or struct without a registered converter
canMarshal(t) == HasMarshalFunc(t) \/ Kind(t) \notin {"Ptr", "Struct"}

\* the function valueMarshaler(v) returns, applied to (s, ev) with the
\* destination holding old: the new value of the destination and the error
\* valueMarshaler storing a slice of the one new element instead of appending
valueMarshalerOverwrite(t, s, ev, old) ==
    IF HasMarshalFunc(t) THEN MarshalFunc(t, s, ev, old)
    ELSE IF Kind(t) = "Bool" /\ s = <<>> THEN [err |-> Nil, val |-> TRUE]
    ELSE IF Kind(t) = "Slice"
         THEN LET r == Sscan(Elem(t), s, Zero(Elem(t))) IN
              IF r.ok THEN [err |-> Nil, val |-> <<r.val>>]
              ELSE [err |-> otherError("error parsing", s, r.why), val |-> old]
    ELSE LET r == Sscan(t, s, old) IN
         IF r.ok THEN [err |-> Nil, val |-> r.val]
         ELSE [err |-> otherError("error parsing", s, r.why), val |-> r.val]

\* valueMarshaler without the "Bool && s == \"\"" case: everything goes to Sscan
valueMarshalerScanOnly(t, s, ev, old) ==
    IF HasMarshalFunc(t) THEN MarshalFunc(t, s, ev, old)
    ELSE IF Kind(t) = "Slice"
         THEN LET r == Sscan(Elem(t), s, Zero(Elem(t))) IN
              IF r.ok THEN [err |-> Nil, val |-> Append(old, r.val)]
              ELSE [err |-> otherError("error parsing", s, r.why), val |-> old]
    ELSE LET r == Sscan(t, s, old) IN
         IF r.ok THEN [err |-> Nil, val |-> r.val]
         ELSE [err |-> otherError("error parsing", s, r.why), val |-> r.val]

RECURSIVE valueMarshaler(_, _, _, _)
valueMarshaler(t, s, ev, old) ==
    IF HasMarshalFunc(t) THEN MarshalFunc(t, s, ev, old)
    ELSE IF Kind(t) = "Bool" /\ s = <<>> THEN [err |-> Nil, val |-> TRUE]
    ELSE IF Kind(t) = "Slice"
         THEN LET r == valueMarshaler(Elem(t), s, ev, Zero(Elem(t))) IN
              IF r.err # Nil THEN [err |-> r.err, val |-> old]
              ELSE [err |-> Nil, val |-> Append(old, r.val)]
    ELSE LET r == Sscan(t, s, old) IN
         IF r.ok THEN [err |-> Nil, val |-> r.val]
         ELSE [err |-> otherError("error parsing", s, r.why), val |-> r.val]

-----------------------------------------------------------------------------
(* The marshalers of marshalers.go: strategies as values *)

\* reflect.Type.Elem of a pointer type
PtrElem(t) ==
    CASE t = "*int64" -> "int64"
      [] t = "*string" -> "string"
      [] t = "*bool" -> "bool"
      [] OTHER -> "net.TCPAddr"

NoMarshaler == [kind |-> "nil"]

defaultMarshaler == [kind |-> "default"]

dynamicMarshaler(req) == [kind |-> "dynamic", explicitValueRequired |-> req]

ptrMarshaler(inner) == [kind |-> "ptr", inner |-> inner]

\* the strategy resolved for a type: a registered converter, a pointer to a
\* type that has a strategy, or the fallback for slices and primitive kinds
RECURSIVE ResolveMarshaler(_)
ResolveMarshaler(t) ==
    IF HasMarshalFunc(t) THEN dynamicMarshaler(explicitValueRequired(t))
    ELSE IF Kind(t) = "Ptr"
         THEN IF ResolveMarshaler(PtrElem(t)) = NoMarshaler THEN NoMarshaler
              ELSE ptrMarshaler(ResolveMarshaler(PtrElem(t)))
    ELSE IF Kind(t) \in {"Slice", "Int64", "String", "Bool"} THEN defaultMarshaler
    ELSE NoMarshaler

\* RequiresExplicitValue of dynamicMarshaler, ptrMarshaler and defaultMarshaler
RequiresExplicitValue(m) ==
    CASE m.kind = "dynamic" -> m.explicitValueRequired
      [] m.kind = "ptr" -> FALSE
      [] OTHER -> TRUE

\* strconv.ParseInt(s, 0, 64) for a text without radix letters and within 64
\* bits: an optional sign, then digits, in base 8 after a leading 0; the value
\* is 0 with a syntax error
ParseInt(s) ==
    LET neg == s # <<>> /\ s[1] = "-"
        d == IF s # <<>> /\ s[1] \in {"-", "+"} THEN Tail(s) ELSE s
        bad == [val |-> 0, err |-> otherError("strconv.ParseInt", s, "invalid syntax")]
    IN
    IF d = <<>> \/ RunLen(d, Digits) # Len(d) THEN bad
    ELSE IF d[1] = "0" /\ Len(d) > 1
         THEN IF \E i \in 1..Len(d) : d[i] \in {"8", "9"} THEN bad
              ELSE [val |-> 0, err |-> Nil]
    ELSE [val |-> IF neg THEN 0 - DecVal(d, 0) ELSE DecVal(d, 0), err |-> Nil]

\* m.Marshal(v, s) for a destination of type t holding old: the value the
\* destination holds afterwards and the error returned
RECURSIVE Marshal(_, _, _, _)
Marshal(m, t, old, s) ==
    CASE m.kind = "ptr" ->
            LET r == Marshal(m.inner, PtrElem(t), Zero(PtrElem(t)), s) IN
            [val |-> <<r.val>>, err |-> r.err]
      [] m.kind = "dynamic" -> MarshalFunc(t, s, TRUE, old)
      [] m.kind = "default" /\ Kind(t) = "Slice" ->
            LET e == ResolveMarshaler(Elem(t))
                r == Marshal(e, Elem(t), Zero(Elem(t)), s)
            IN
            IF e = NoMarshaler
            THEN [val |-> old, err |-> otherError("can't marshal type", NoArg, Elem(t))]
            ELSE IF r.err # Nil THEN [val |-> old, err |-> r.err]
            ELSE [val |-> Append(old, r.val), err |-> Nil]
      [] m.kind = "default" /\ Kind(t) = "Int64" -> ParseInt(s)
      [] m.kind = "default" /\ Kind(t) = "String" -> [val |-> s, err |-> Nil]
      [] OTHER -> [val |-> old, err |-> otherError("unhandled builtin type", NoArg, t)]

-----------------------------------------------------------------------------
(* The registry: parser.parseStruct and what it calls *)

\* a field of the command struct: its identifier, its name and arity tags
\* (<<>> and "" when absent) and its type
Field(id, nameTag, arityTag, t) ==
    [Name |-> id, name |-> nameTag, arity |-> arityTag, type |-> t, sub |-> <<>>,
     Anonymous |-> FALSE]

\* a field whose type is a struct with the fields subs
Struct(id, subs) == [Field(id, <<>>, "", "struct") EXCEPT !.sub = subs]

\* an embedded struct: the field goes by its type's name and is anonymous
Embedded(id, subs) == [Struct(id, subs) EXCEPT !.Anonymous = TRUE]

infArity == 1000

\* the lengths k of a first group of ^([[:upper:]]+)([[:upper:]][^[:upper:]].*?)$:
\* k upper-case letters, then an upper-case letter and a character that is none
AcronymSplits(s) ==
    {k \in 1..(Len(s) - 2) :
        /\ \A i \in 1..(k + 1) : s[i] \in Upper
        /\ s[k + 2] \notin Upper}

fieldLongFlagKeyFirstOnly(fieldName) ==
    IF fieldName # <<>> /\ fieldName[1] \in Upper
    THEN ToLower(Take(fieldName, 1)) \o Drop(fieldName, 1)
    ELSE RuntimePanic(fieldName)

\* fieldLongFlagKey: lower-cases a leading acronym and the first capital letter;
\* the three regular expressions in turn (the first group of the second is
\* greedy), and panic(fieldName) when none matches
fieldLongFlagKey(fieldName) ==
    IF Len(fieldName) >= 2 /\ \A i \in 1..Len(fieldName) : fieldName[i] \in Upper
    THEN ToLower(fieldName)
    ELSE IF AcronymSplits(fieldName) # {}
    THEN LET k == CHOOSE k \in AcronymSplits(fieldName) :
                      \A h \in AcronymSplits(fieldName) : h <= k
         IN ToLower(Take(fieldName, k)) \o Drop(fieldName, k)
    ELSE IF fieldName # <<>> /\ fieldName[1] \in Upper
    THEN ToLower(Take(fieldName, 1)) \o Drop(fieldName, 1)
    ELSE RuntimePanic(fieldName)

structFieldFlag(sf) == IF sf.name # <<>> THEN sf.name ELSE fieldLongFlagKey(sf.Name)

\* the name addPos gives a positional: strings.ToUpper(xstrings.ToSnakeCase(sf.Name));
\* the identifiers of the scenarios are single words, which ToSnakeCase lower-cases
posName(sf) == ToUpper(ToLower(sf.Name))

fieldArity(sf) ==
    LET max0 == IF Kind(sf.type) = "Slice" THEN infArity ELSE 1 IN
    CASE sf.arity = "?" -> [min |-> 0, max |-> max0]
      [] sf.arity = "*" -> [min |-> 0, max |-> infArity]
      [] sf.arity = "+" -> [min |-> 1, max |-> infArity]
      [] OTHER -> [min |-> 1, max |-> max0]

\* newArg; fld is the handle on the destination field
newArg(sf, fld, name) ==
    [name |-> name, arity |-> fieldArity(sf), type |-> sf.type, fld |-> fld]

FlagIndex(fs, k) ==
    IF \E i \in 1..Len(fs) : fs[i].name = k
    THEN CHOOSE i \in 1..Len(fs) : fs[i].name = k
    ELSE 0

\* parser.addPos on the walk's state
addPos(st, sf, fld) ==
    [st EXCEPT !.posArgs = Append(@, newArg(sf, fld, posName(sf)))]

addFlagNoCheck(st, sf, fld) ==
    [st EXCEPT !.flags = Append(@, newArg(sf, fld, structFieldFlag(sf)))]

\* parser.addFlag on the walk's state
addFlag(st, sf, fld) ==
    LET name == structFieldFlag(sf) IN
    IF FlagIndex(st.flags, name) # 0
    THEN [st EXCEPT !.err = otherError("flag defined more than once", name, "")]
    ELSE [st EXCEPT !.flags = Append(@, newArg(sf, fld, name))]

\* one call of the callback parseStruct hands to foreachStructField
\* a field is exported when its name starts with an upper-case letter; an
\* embedded field goes by its type's name (StartPos, ExcessArgs)
exported(sf) == sf.Name = <<>> \/ sf.Name[1] \in Upper

\* the walk at the excess-sink marker, and at any field that follows one
ErrFieldsAfterExcessArgs ==
    [class |-> "other", msg |-> "field(s) after ExcessArgs", arg |-> NoArg, cause |-> ""]

excessFieldSkipLater(st, sf, fld) ==
    IF st.excess # 0 THEN st ELSE [st EXCEPT !.excess = fld]

excessField(st, sf, fld) ==
    IF st.excess # 0 THEN [st EXCEPT !.err = ErrFieldsAfterExcessArgs]
    ELSE [st EXCEPT !.excess = fld]

\* a struct field is walked by a nested parseStruct, which starts with its own
\* posStarted and adds to the same parser; the handles of its fields are the
\* next unused ones after those of the top-level struct
RECURSIVE parseStructFrom(_, _, _, _)
parseStructField(st, sf, fld) ==
    IF st.excess # 0 \/ sf.type = "ExcessArgs" THEN excessField(st, sf, fld)
    ELSE IF ~st.posStarted /\ sf.type = "StartPos" THEN [st EXCEPT !.posStarted = TRUE]
    ELSE IF ~exported(sf)
         THEN [st EXCEPT !.err = RuntimePanic("cannot return value obtained from unexported field")]
    ELSE IF canMarshal(sf.type)
         THEN IF st.posStarted THEN addPos(st, sf, fld) ELSE addFlag(st, sf, fld)
    ELSE IF Kind(sf.type) = "Struct"
         THEN LET r == parseStructFrom(sf.sub, 1,
                           [st EXCEPT !.posStarted = FALSE, !.nsub = @ + Len(sf.sub)],
                           st.width + st.nsub)
              IN [r EXCEPT !.posStarted = st.posStarted]
    ELSE [st EXCEPT !.err = otherError("field has bad type", NoArg, sf.type)]

\* parser.parseStruct: the fields in declaration order, stopping at the first error
parseStructFrom(fields, i, st, base) ==
    IF i > Len(fields) \/ st.err # Nil THEN st
    ELSE parseStructFrom(fields, i + 1, parseStructField(st, fields[i], base + i), base)

parseStruct(fields) ==
    parseStructFrom(fields, 1,
        [posStarted |-> FALSE, posArgs |-> <<>>, flags |-> <<>>, excess |-> 0, err |-> Nil,
         width |-> Len(fields), nsub |-> 0],
        0)

\* the fields of the nested structs, in the order parseStruct hands out their handles
RECURSIVE SubFields(_)
SubFields(fields) ==
    IF fields = <<>> THEN <<>>
    ELSE Head(fields).sub \o SubFields(Head(fields).sub) \o SubFields(Tail(fields))

\* every field that has a handle: those of the struct, then those of its nested structs
AllFields(fields) == fields \o SubFields(fields)

-----------------------------------------------------------------------------
(* The token parser's pure parts *)

\* parser.minPos
RECURSIVE SumMin(_)
SumMin(ps) == IF ps = <<>> THEN 0 ELSE ps[1].arity.min + SumMin(Tail(ps))

minPos(ps) == SumMin(ps)

\* parser.indexPosArg: the index in posArgs of the slot it returns, 0 for nil
RECURSIVE indexPosArgFrom(_, _, _)
indexPosArgFrom(ps, j, i) ==
    IF j > Len(ps) THEN 0
    ELSE IF i < ps[j].arity.max THEN j
    ELSE indexPosArgFrom(ps, j + 1, i - ps[j].arity.max)

\* indexPosArg without "i -= arg.arity.max": each slot tested against the full count
indexPosArgNoCarry(ps, i) ==
    IF \E j \in 1..Len(ps) : i < ps[j].arity.max
    THEN CHOOSE j \in 1..Len(ps) : i < ps[j].arity.max /\ \A h \in 1..(j - 1) : ~(i < ps[h].arity.max)
    ELSE 0

indexPosArg(ps, i) == indexPosArgFrom(ps, 1, i)

\* the flag test of parseAny: strings.HasPrefix(a, "-") && len(a) > 1
\* flag parsing ended by the first positional token
isFlagUntilFirstPos(a) == numPos = 0 /\ HasPrefix(a, <<"-">>) /\ Len(a) > 1

isFlag(a) == HasPrefix(a, <<"-">>) /\ Len(a) > 1

\* the split parseFlag makes of s, the token without its first character
splitKey(s) == IF IndexByte(s, "=") # 0 THEN Take(s, IndexByte(s, "=") - 1) ELSE s

\* parseFlag forgetting the text after '='
splitValueNone(s) == <<>>

splitValue(s) == IF IndexByte(s, "=") # 0 THEN Drop(s, IndexByte(s, "=")) ELSE <<>>

splitExplicit(s) == IndexByte(s, "=") # 0

-----------------------------------------------------------------------------
(* Tokens and command structs of the scenarios *)

tSep == <<"-", "-">>
tDash == <<"-">>
tX == <<"x">>
tY == <<"y">>
tNum == <<"1", "2">>
tV == <<"-", "v">>
tVtrue == <<"-", "v", "=", "t", "r", "u", "e">>
tVfalse == <<"-", "v", "=", "f", "a", "l", "s", "e">>
tNo == <<"-", "n", "o">>
tC == <<"-", "c">>
tD == <<"-", "d">>
tDx == <<"-", "d", "=", "x">>
tDeq == <<"-", "d", "=">>
tSeed == <<"-", "s", "e", "e", "d">>
tAddr == <<"-", "a", "d", "d", "r">>
tAddrEq == <<"-", "a", "d", "d", "r", "=">>
tAddrPort == <<"-", "a", "d", "d", "r", "=", ":", "4">>

tH == <<"-", "h">>
tHfalse == <<"-", "h", "=", "f", "a", "l", "s", "e">>
tHelp == <<"-", "h", "e", "l", "p">>
tBadField == <<"-", "b", "a", "d", "F", "i", "e", "l", "d">>
tN12 == <<"-", "n", "=", "1", "2">>
tNx == <<"-", "n", "=", "x">>
tDht == <<"-", "d", "h", "t">>
tTcpAddr == <<"-", "t", "c", "p", "A", "d", "d", "r">>
tNoIPv6 == <<"-", "n", "o", "I", "P", "v", "6">>
tDxy == <<"-", "d", "=", "x", " ", "y">>
tLy == <<"-", "l", "=", "y">>
tVV == <<"-", "-", "v">>
tW == <<"-", "w">>
tAddrBad == <<"-", "a", "d", "d", "r", "=", "x">>
tAddrHi == <<"-", "a", "d", "d", "r", "=", "h", "i">>

StartPos == Field(<<>>, <<>>, "", "StartPos")

\* struct { Verbose bool `name:"v"`; StartPos; Arg string }
simpleCmd ==
    [fields |-> << Field(<<"V", "e", "r", "b", "o", "s", "e">>, <<"v">>, "", "bool"),
                   StartPos,
                   Field(<<"A", "r", "g">>, <<>>, "", "string") >>,
     tokens |-> {tSep, tX, tV, tVV, tVtrue, tVfalse, tNo},
     noDefaultHelp |-> FALSE,
     preset |-> FALSE]

\* struct { C bool; StartPos; A string; B int64 `arity:"?"`; D []string `arity:"*"` }
aritiesCmd ==
    [fields |-> << Field(<<"C">>, <<>>, "", "bool"),
                   StartPos,
                   Field(<<"A">>, <<>>, "", "string"),
                   Field(<<"B">>, <<>>, "?", "int64"),
                   Field(<<"D">>, <<>>, "*", "[]string") >>,
     tokens |-> {tSep, tX, tY, tNum, tC},
     noDefaultHelp |-> FALSE,
     preset |-> FALSE]

\* struct { Seed bool; DataDir string `name:"d"`; StartPos; Torrent []string `arity:"+"` }
torrentCmd ==
    [fields |-> << Field(<<"S", "e", "e", "d">>, <<>>, "", "bool"),
                   Field(<<"D", "a", "t", "a", "D", "i", "r">>, <<"d">>, "", "string"),
                   StartPos,
                   Field(<<"T", "o", "r", "r", "e", "n", "t">>, <<>>, "+", "[]string") >>,
     tokens |-> {tSep, tX, tY, tSeed, tD, tDx, tDeq},
     noDefaultHelp |-> FALSE,
     preset |-> FALSE]

\* struct { Addr *net.TCPAddr; StartPos; A string `arity:"?"` }
addrCmd ==
    [fields |-> << Field(<<"A", "d", "d", "r">>, <<>>, "", "*net.TCPAddr"),
                   StartPos,
                   Field(<<"A">>, <<>>, "?", "string") >>,
     tokens |-> {tSep, tX, tY, tAddr, tAddrEq, tAddrPort, tAddrBad},
     noDefaultHelp |-> FALSE,
     preset |-> FALSE]

\* struct { StartPos; A string `arity:"?"`; B string }
optReqCmd ==
    [fields |-> << StartPos,
                   Field(<<"A">>, <<>>, "?", "string"),
                   Field(<<"B">>, <<>>, "", "string") >>,
     tokens |-> {tSep, tX, tY, tDash},
     noDefaultHelp |-> FALSE,
     preset |-> FALSE]

\* struct { Verbose bool `name:"v"`; V bool; StartPos; Arg string }
dupCmd ==
    [fields |-> << Field(<<"V", "e", "r", "b", "o", "s", "e">>, <<"v">>, "", "bool"),
                   Field(<<"V">>, <<>>, "", "bool"),
                   StartPos,
                   Field(<<"A", "r", "g">>, <<>>, "", "string") >>,
     tokens |-> {tX, tV},
     noDefaultHelp |-> FALSE,
     preset |-> FALSE]

\* struct { Verbose bool `name:"v"`; Opts struct { C bool; V bool }; StartPos; Arg string }
nestedDupCmd ==
    [fields |-> << Field(<<"V", "e", "r", "b", "o", "s", "e">>, <<"v">>, "", "bool"),
                   Struct(<<"O", "p", "t", "s">>,
                          << Field(<<"C">>, <<>>, "", "bool"),
                             Field(<<"V">>, <<>>, "", "bool") >>),
                   StartPos,
                   Field(<<"A", "r", "g">>, <<>>, "", "string") >>,
     tokens |-> {tX, tV},
     noDefaultHelp |-> FALSE,
     preset |-> FALSE]

\* struct { Verbose bool `name:"v"`; Opts struct { W bool }; StartPos; Arg string `arity:"?"` }
nestedCmd ==
    [fields |-> << Field(<<"V", "e", "r", "b", "o", "s", "e">>, <<"v">>, "", "bool"),
                   Struct(<<"O", "p", "t", "s">>, << Field(<<"W">>, <<>>, "", "bool") >>),
                   StartPos,
                   Field(<<"A", "r", "g">>, <<>>, "?", "string") >>,
     tokens |-> {tX, tV, tW},
     noDefaultHelp |-> FALSE,
     preset |-> FALSE]

\* struct { Verbose bool `name:"v"`; StartPos; Arg string; Sub struct { B string } }
nestedPosCmd ==
    [fields |-> << Field(<<"V", "e", "r", "b", "o", "s", "e">>, <<"v">>, "", "bool"),
                   StartPos,
                   Field(<<"A", "r", "g">>, <<>>, "", "string"),
                   Struct(<<"S", "u", "b">>, << Field(<<"B">>, <<>>, "", "string") >>) >>,
     tokens |-> {tX, tY, tV},
     noDefaultHelp |-> FALSE,
     preset |-> FALSE]

\* type Opts struct { W bool }; struct { Opts; StartPos; Arg string `arity:"?"` }
embeddedCmd ==
    [fields |-> << Embedded(<<"O", "p", "t", "s">>, << Field(<<"W">>, <<>>, "", "bool") >>),
                   StartPos,
                   Field(<<"A", "r", "g">>, <<>>, "?", "string") >>,
     tokens |-> {tX, tW},
     noDefaultHelp |-> FALSE,
     preset |-> FALSE]

\* struct { DHT bool; TCPAddr bool; NoUpload bool; NoIPv6 bool; V bool }
namesCmd ==
    [fields |-> << Field(<<"D", "H", "T">>, <<>>, "", "bool"),
                   Field(<<"T", "C", "P", "A", "d", "d", "r">>, <<>>, "", "bool"),
                   Field(<<"N", "o", "U", "p", "l", "o", "a", "d">>, <<>>, "", "bool"),
                   Field(<<"N", "o", "I", "P", "v", "6">>, <<>>, "", "bool"),
                   Field(<<"V">>, <<>>, "", "bool") >>,
     tokens |-> {tDht, tTcpAddr, tNoIPv6},
     noDefaultHelp |-> FALSE,
     preset |-> FALSE]

\* struct { Verbose bool `name:"v"`; D string; N int64; L []string }
roundTripCmd ==
    [fields |-> << Field(<<"V", "e", "r", "b", "o", "s", "e">>, <<"v">>, "", "bool"),
                   Field(<<"D">>, <<>>, "", "string"),
                   Field(<<"N">>, <<>>, "", "int64"),
                   Field(<<"L">>, <<>>, "", "[]string") >>,
     tokens |-> {tVtrue, tN12, tDx, tDxy, tLy},
     noDefaultHelp |-> FALSE,
     preset |-> FALSE]

\* struct { StartPos; D []string; B string }
restFirstCmd ==
    [fields |-> << StartPos,
                   Field(<<"D">>, <<>>, "", "[]string"),
                   Field(<<"B">>, <<>>, "", "string") >>,
     tokens |-> {tX, tY},
     noDefaultHelp |-> FALSE,
     preset |-> FALSE]

\* struct { Verbose bool `name:"v"`; StartPos; Command string; ExcessArgs }
excessCmd ==
    [fields |-> << Field(<<"V", "e", "r", "b", "o", "s", "e">>, <<"v">>, "", "bool"),
                   StartPos,
                   Field(<<"C", "o", "m", "m", "a", "n", "d">>, <<>>, "", "string"),
                   Field(<<"E", "x", "c", "e", "s", "s", "A", "r", "g", "s">>, <<>>, "", "ExcessArgs") >>,
     tokens |-> {tSep, tX, tV, tAddrHi},
     noDefaultHelp |-> FALSE,
     preset |-> FALSE]

\* struct { ExcessArgs; Badness string }
afterExcessCmd ==
    [fields |-> << Field(<<"E", "x", "c", "e", "s", "s", "A", "r", "g", "s">>, <<>>, "", "ExcessArgs"),
                   Field(<<"B", "a", "d", "n", "e", "s", "s">>, <<>>, "", "string") >>,
     tokens |-> {tX, tAddrHi},
     noDefaultHelp |-> FALSE,
     preset |-> FALSE]

\* struct { Verbose bool `name:"v"`; Rest struct { ExcessArgs }; Late bool }
nestedAfterExcessCmd ==
    [fields |-> << Field(<<"V", "e", "r", "b", "o", "s", "e">>, <<"v">>, "", "bool"),
                   Struct(<<"R", "e", "s", "t">>,
                          << Field(<<"E", "x", "c", "e", "s", "s", "A", "r", "g", "s">>, <<>>, "", "ExcessArgs") >>),
                   Field(<<"L", "a", "t", "e">>, <<>>, "", "bool") >>,
     tokens |-> {tX, tV},
     noDefaultHelp |-> FALSE,
     preset |-> FALSE]

\* struct { ExcessArgs }
sinkOnlyCmd ==
    [fields |-> << Field(<<"E", "x", "c", "e", "s", "s", "A", "r", "g", "s">>, <<>>, "", "ExcessArgs") >>,
     tokens |-> {tX, tAddrHi},
     noDefaultHelp |-> FALSE,
     preset |-> FALSE]

\* struct { H bool; StartPos; A string `arity:"?"` }: a user flag named h
helpCmd ==
    [fields |-> << Field(<<"H">>, <<>>, "", "bool"),
                   StartPos,
                   Field(<<"A">>, <<>>, "?", "string") >>,
     tokens |-> {tX, tH, tHfalse, tHelp},
     noDefaultHelp |-> FALSE,
     preset |-> FALSE]

\* struct { Verbose bool `name:"v"`; StartPos; A string `arity:"?"` }, parsed
\* with the NoDefaultHelp option
noHelpCmd ==
    [fields |-> << Field(<<"V", "e", "r", "b", "o", "s", "e">>, <<"v">>, "", "bool"),
                   StartPos,
                   Field(<<"A">>, <<>>, "?", "string") >>,
     tokens |-> {tX, tV, tH, tHelp},
     noDefaultHelp |-> TRUE,
     preset |-> FALSE]

\* struct { badField bool }
unexportedCmd ==
    [fields |-> << Field(<<"b", "a", "d", "F", "i", "e", "l", "d">>, <<>>, "", "bool") >>,
     tokens |-> {tBadField},
     noDefaultHelp |-> FALSE,
     preset |-> FALSE]

\* struct { N []int64; StartPos; Args []string }
sliceCmd ==
    [fields |-> << Field(<<"N">>, <<>>, "", "[]int64"),
                   StartPos,
                   Field(<<"A", "r", "g", "s">>, <<>>, "", "[]string") >>,
     tokens |-> {tX, tNum, tN12, tNx},
     noDefaultHelp |-> FALSE,
     preset |-> FALSE]

\* the same struct handed to ParseErr with its slices already filled
sliceCmdPreset == [sliceCmd EXCEPT !.preset = TRUE]

\* the value a field holds when the caller has filled the record beforehand
PresetValue(t) ==
    CASE t = "[]int64" -> <<7>>
      [] t = "[]string" -> <<tY>>
      [] OTHER -> Zero(t)

\* the record as the caller hands it to ParseErr
InitialRec(s) ==
    [i \in 1..Len(AllFields(s.fields)) |->
        IF s.preset THEN PresetValue(AllFields(s.fields)[i].type)
        ELSE Zero(AllFields(s.fields)[i].type)]

Scenarios ==
    {sliceCmd, sliceCmdPreset,
     simpleCmd, aritiesCmd, torrentCmd, addrCmd, optReqCmd, excessCmd, sinkOnlyCmd,
     helpCmd, noHelpCmd, unexportedCmd, restFirstCmd, dupCmd, nestedDupCmd, nestedCmd,
     afterExcessCmd, nestedAfterExcessCmd, nestedPosCmd, embeddedCmd, namesCmd,
     roundTripCmd}

SeqsUpTo(S, n) == UNION {[1..k -> S] : k \in 0..n}

-----------------------------------------------------------------------------
(* The state machine: ParseErr(cmd, args) *)

NotTaken == [kind |-> "none", slot |-> NoArg]

\* the index in input of the token at the head of args
CurIdx == Len(input) - Len(args) + 1

\* no marshaler call and no second parser
NoCall == [pc |-> "none"]

NoPair == [phase |-> "single"]

\* newParser, then parse about to run its first loop
Init ==
    /\ call = NoCall
    /\ par = NoPair
    /\ sc \in Scenarios
    /\ input \in SeqsUpTo(sc.tokens, MaxArgs)
    /\ LET st == parseStruct(sc.fields) IN
       /\ posArgs = st.posArgs
       /\ flags = st.flags
       /\ excess = st.excess
       /\ err = st.err
       /\ pc = IF st.err = Nil THEN "parseAny" ELSE "done"
    /\ numPos = 0
    /\ args = input
    /\ rec = InitialRec(sc)
    /\ took = [i \in 1..Len(input) |-> NotTaken]

\* parseFlag marshaling into a zero-valued struct instead of the caller's
parseFlagFreshRecord(s) ==
    LET k == splitKey(s)
        i == FlagIndex(flags, k)
        zero == [h \in 1..Len(rec) |-> Zero(AllFields(sc.fields)[h].type)]
        r == valueMarshaler(flags[i].type, splitValue(s), splitExplicit(s), rec[flags[i].fld])
    IN
    IF i = 0
    THEN [err |-> IF k \in {<<"h", "e", "l", "p">>, <<"h">>} /\ ~sc.noDefaultHelp
                  THEN ErrDefaultHelp
                  ELSE userError("unknown flag", k),
          rec |-> rec, slot |-> NoArg]
    ELSE [err |-> IF r.err # Nil THEN otherError("error setting flag", k, r.err.msg) ELSE Nil,
          rec |-> [zero EXCEPT ![flags[i].fld] = r.val],
          slot |-> k]

\* parser.parseFlag(s): the error it returns and the struct it leaves
parseFlag(s) ==
    LET k == splitKey(s)
        i == FlagIndex(flags, k)
        r == valueMarshaler(flags[i].type, splitValue(s), splitExplicit(s), rec[flags[i].fld])
    IN
    IF i = 0
    THEN [err |-> IF k \in {<<"h", "e", "l", "p">>, <<"h">>} /\ ~sc.noDefaultHelp
                  THEN ErrDefaultHelp
                  ELSE userError("unknown flag", k),
          rec |-> rec, slot |-> NoArg]
    ELSE [err |-> IF r.err # Nil THEN otherError("error setting flag", k, r.err.msg) ELSE Nil,
          rec |-> [rec EXCEPT ![flags[i].fld] = r.val],
          slot |-> k]

\* parsePos dropping a token that has no slot instead of failing
parsePosDropExcess(s) ==
    LET j == indexPosArg(posArgs, numPos)
        r == valueMarshaler(posArgs[j].type, s, TRUE, rec[posArgs[j].fld])
    IN
    IF j = 0
    THEN [err |-> Nil, rec |-> rec, numPos |-> numPos, slot |-> NoArg]
    ELSE [err |-> r.err,
          rec |-> [rec EXCEPT ![posArgs[j].fld] = r.val],
          numPos |-> IF r.err = Nil THEN numPos + 1 ELSE numPos,
          slot |-> posArgs[j].name]

\* parser.parsePos(s): the error it returns, the struct and numPos it leaves
parsePos(s) ==
    LET j == indexPosArg(posArgs, numPos)
        r == valueMarshaler(posArgs[j].type, s, TRUE, rec[posArgs[j].fld])
    IN
    IF j = 0
    THEN [err |-> userError("excess argument", s), rec |-> rec, numPos |-> numPos, slot |-> NoArg]
    ELSE [err |-> r.err,
          rec |-> [rec EXCEPT ![posArgs[j].fld] = r.val],
          numPos |-> IF r.err = Nil THEN numPos + 1 ELSE numPos,
          slot |-> posArgs[j].name]

\* the sink consulted only for a token that is not flag-shaped
excessReadyBareOnly ==
    excess # 0 /\ indexPosArg(posArgs, numPos) = 0 /\ ~isFlag(Head(args))

\* the record has an excess sink and no positional slot can take another token
excessReady == excess # 0 /\ indexPosArg(posArgs, numPos) = 0

\* the loops' test before each token: hand what is left to the excess sink and
\* return success
CaptureExcess ==
    /\ pc \in {"parseAny", "parsePosArgs"} /\ args # <<>> /\ excessReady
    /\ rec' = [rec EXCEPT ![excess] = args]
    /\ took' = [i \in 1..Len(input) |->
                    IF i >= CurIdx THEN [kind |-> "excess", slot |-> NoArg] ELSE took[i]]
    /\ args' = <<>>
    /\ pc' = "done"
    /\ err' = Nil
    /\ UNCHANGED <<sc, input, posArgs, flags, excess, numPos>>
    /\ UNCHANGED aux

\* parseAny at "--": left = args[1:] of the already shortened args, and return
ParseAnySeparator ==
    /\ pc = "parseAny" /\ args # <<>> /\ ~excessReady /\ Head(args) = tSep
    /\ took' = [took EXCEPT ![CurIdx] = [kind |-> "sep", slot |-> NoArg]]
    /\ IF Tail(args) = <<>>
       THEN /\ err' = RuntimePanic("slice bounds out of range")
            /\ pc' = "done"
            /\ args' = <<>>
       ELSE /\ pc' = "parsePosArgs"
            /\ args' = Tail(Tail(args))
            /\ err' = err
    /\ UNCHANGED <<sc, input, posArgs, flags, excess, numPos, rec>>
    /\ UNCHANGED aux

\* one round of parseAny's loop on a flag token
ParseAnyFlag ==
    /\ pc = "parseAny" /\ args # <<>> /\ ~excessReady
    /\ Head(args) # tSep /\ isFlag(Head(args))
    /\ LET r == parseFlag(Tail(Head(args))) IN
       /\ rec' = r.rec
       /\ err' = r.err
       /\ pc' = IF r.err # Nil THEN "done" ELSE pc
       /\ took' = IF r.err # Nil THEN took
                  ELSE [took EXCEPT ![CurIdx] = [kind |-> "flag", slot |-> r.slot]]
    /\ args' = Tail(args)
    /\ UNCHANGED <<sc, input, posArgs, flags, excess, numPos>>
    /\ UNCHANGED aux

\* one round of parseAny's loop on a token that is not a flag
ParseAnyPos ==
    /\ pc = "parseAny" /\ args # <<>> /\ ~excessReady /\ ~isFlag(Head(args))
    /\ LET r == parsePos(Head(args)) IN
       /\ rec' = r.rec
       /\ numPos' = r.numPos
       /\ err' = r.err
       /\ pc' = IF r.err # Nil THEN "done" ELSE pc
       /\ took' = IF r.err # Nil THEN took
                  ELSE [took EXCEPT ![CurIdx] = [kind |-> "pos", slot |-> r.slot]]
    /\ args' = Tail(args)
    /\ UNCHANGED <<sc, input, posArgs, flags, excess>>
    /\ UNCHANGED aux

\* one round of parsePosArgs' loop
ParsePosArgs ==
    /\ pc = "parsePosArgs" /\ args # <<>> /\ ~excessReady
    /\ LET r == parsePos(Head(args)) IN
       /\ rec' = r.rec
       /\ numPos' = r.numPos
       /\ err' = r.err
       /\ pc' = IF r.err # Nil THEN "done" ELSE pc
       /\ took' = IF r.err # Nil THEN took
                  ELSE [took EXCEPT ![CurIdx] = [kind |-> "pos", slot |-> r.slot]]
    /\ args' = Tail(args)
    /\ UNCHANGED <<sc, input, posArgs, flags, excess>>
    /\ UNCHANGED aux

\* both loops are over: parse's check of numPos against minPos, and its return
ParseReturn ==
    /\ pc \in {"parseAny", "parsePosArgs"} /\ args = <<>>
    /\ err' = IF numPos < minPos(posArgs)
              THEN IF indexPosArg(posArgs, numPos) = 0
                   THEN RuntimePanic("nil pointer dereference")
                   ELSE userError("missing argument", posArgs[indexPosArg(posArgs, numPos)].name)
              ELSE Nil
    /\ pc' = "done"
    /\ UNCHANGED <<sc, input, posArgs, flags, excess, numPos, args, rec, took>>
    /\ UNCHANGED aux

Next ==
    \/ CaptureExcess
    \/ ParseAnySeparator
    \/ ParseAnyFlag
    \/ ParseAnyPos
    \/ ParsePosArgs
    \/ ParseReturn

Spec == Init /\ [][Next]_vars

-----------------------------------------------------------------------------
(* One call of a strategy of marshalers.go: resolve it for the destination's
   type, then Marshal one token into the destination *)

MarshalTypes == {"int64", "string", "[]int64", "[]string", "*int64", "*string", "*net.TCPAddr", "bool"}

MarshalTokens == {<<"1", "2">>, <<"7">>, <<"x">>, <<>>, <<":", "4">>}

\* the values the destination holds before the call
MarshalValues(t) ==
    CASE t = "int64" -> {0, 7}
      [] t = "string" -> {<<>>, <<"y">>}
      [] t = "[]int64" -> {<<>>, <<7>>}
      [] t = "[]string" -> {<<>>, <<tY>>}
      [] t = "*int64" -> {<<>>, <<7>>}
      [] t = "*string" -> {<<>>, <<tY>>}
      [] t = "*net.TCPAddr" -> {<<>>, << <<":", "4">> >>}
      [] OTHER -> {FALSE, TRUE}

MarshalInit ==
    /\ sc = simpleCmd
    /\ input = <<>>
    /\ posArgs = <<>>
    /\ flags = <<>>
    /\ excess = 0
    /\ numPos = 0
    /\ args = <<>>
    /\ pc = "marshal"
    /\ rec = <<>>
    /\ err = Nil
    /\ took = <<>>
    /\ par = NoPair
    /\ \E t \in MarshalTypes : \E v \in MarshalValues(t) : \E s \in MarshalTokens :
          call = [pc |-> "resolve", t |-> t, old |-> v, v |-> v, s |-> s,
                  m |-> NoMarshaler, req |-> FALSE, err |-> Nil]

\* the strategy for the destination's type, and whether it wants "=value"
ResolveStrategy ==
    /\ call.pc = "resolve"
    /\ LET m == ResolveMarshaler(call.t) IN
       call' = [call EXCEPT !.m = m,
                            !.req = RequiresExplicitValue(m),
                            !.pc = IF m = NoMarshaler THEN "done" ELSE "ready",
                            !.err = IF m = NoMarshaler
                                    THEN otherError("field has bad type", NoArg, call.t)
                                    ELSE Nil]
    /\ UNCHANGED <<sc, input, posArgs, flags, excess, numPos, args, pc, rec, err, took, par>>

\* m.Marshal(v, s)
MarshalCall ==
    /\ call.pc = "ready"
    /\ LET r == Marshal(call.m, call.t, call.v, call.s) IN
       call' = [call EXCEPT !.v = r.val, !.err = r.err, !.pc = "done"]
    /\ UNCHANGED <<sc, input, posArgs, flags, excess, numPos, args, pc, rec, err, took, par>>

MarshalNext == ResolveStrategy \/ MarshalCall

MarshalSpec == MarshalInit /\ [][MarshalNext]_vars

-----------------------------------------------------------------------------
(* Two invocations of ParseErr on two records: each first run alone, then both
   run again with their steps interleaved. The variables of the parser hold
   the invocation that is running; par.other holds the one that is waiting. *)

\* longest token list of an invocation of a pair
MaxPairArgs == 3

\* the scenarios and tokens the pairs are made of
PairTokens(s) ==
    IF s = simpleCmd THEN {tSep, tX, tV} ELSE {tX, tAddrHi}

PairCfgs ==
    {[sc |-> s, input |-> in] :
        s \in {simpleCmd}, in \in SeqsUpTo(PairTokens(simpleCmd), MaxPairArgs)}
    \cup
    {[sc |-> s, input |-> in] :
        s \in {excessCmd}, in \in SeqsUpTo(PairTokens(excessCmd), MaxPairArgs)}

\* p = &parser{cmd: cmd}, p.parseCmd(), and the args handed to p.parse
newParser(cfg) ==
    LET st == parseStruct(cfg.sc.fields) IN
    [sc |-> cfg.sc, input |-> cfg.input,
     posArgs |-> st.posArgs, flags |-> st.flags, excess |-> st.excess,
     numPos |-> 0, args |-> cfg.input,
     pc |-> IF st.err = Nil THEN "parseAny" ELSE "done",
     rec |-> InitialRec(cfg.sc), err |-> st.err,
     took |-> [i \in 1..Len(cfg.input) |-> NotTaken]]

\* the running invocation's state with the waiting invocation's numPos, as if
\* numPos were one counter of the package
ownStateOthersCount ==
    [sc |-> sc, input |-> input, posArgs |-> posArgs, flags |-> flags, excess |-> excess,
     numPos |-> par.other.numPos, args |-> args, pc |-> pc, rec |-> rec, err |-> err,
     took |-> took]

\* what belongs to the running invocation: its parser, its record, its position
ownState ==
    [sc |-> sc, input |-> input, posArgs |-> posArgs, flags |-> flags, excess |-> excess,
     numPos |-> numPos, args |-> args, pc |-> pc, rec |-> rec, err |-> err,
     took |-> took]

\* the invocation s becomes the running one
Resume(s) ==
    /\ sc' = s.sc
    /\ input' = s.input
    /\ posArgs' = s.posArgs
    /\ flags' = s.flags
    /\ excess' = s.excess
    /\ numPos' = s.numPos
    /\ args' = s.args
    /\ pc' = s.pc
    /\ rec' = s.rec
    /\ err' = s.err
    /\ took' = s.took

NoParser == [pc |-> "none"]

NoOutcome == [rec |-> <<>>, err |-> Nil]

PairInit ==
    /\ call = NoCall
    /\ \E a \in PairCfgs : \E b \in PairCfgs :
          /\ par = [phase |-> "aloneA", who |-> "A", cfgA |-> a, cfgB |-> b,
                    other |-> NoParser, soloA |-> NoOutcome, soloB |-> NoOutcome]
          /\ LET s == newParser(a) IN
             /\ sc = s.sc
             /\ input = s.input
             /\ posArgs = s.posArgs
             /\ flags = s.flags
             /\ excess = s.excess
             /\ numPos = s.numPos
             /\ args = s.args
             /\ pc = s.pc
             /\ rec = s.rec
             /\ err = s.err
             /\ took = s.took

\* the first invocation has returned on its own: the second one runs on its own
SecondAlone ==
    /\ par.phase = "aloneA" /\ pc = "done"
    /\ par' = [par EXCEPT !.phase = "aloneB", !.who = "B",
                          !.soloA = [rec |-> rec, err |-> err]]
    /\ Resume(newParser(par.cfgB))
    /\ UNCHANGED call

\* both have returned on their own: both are invoked again, on fresh records
StartTogether ==
    /\ par.phase = "aloneB" /\ pc = "done"
    /\ par' = [par EXCEPT !.phase = "together", !.who = "A",
                          !.soloB = [rec |-> rec, err |-> err],
                          !.other = newParser(par.cfgB)]
    /\ Resume(newParser(par.cfgA))
    /\ UNCHANGED call

\* the scheduler lets the other invocation take the next step
Switch ==
    /\ par.phase = "together"
    /\ par' = [par EXCEPT !.who = IF par.who = "A" THEN "B" ELSE "A",
                          !.other = ownState]
    /\ Resume(par.other)
    /\ UNCHANGED call

PairNext ==
    \/ CaptureExcess
    \/ ParseAnySeparator
    \/ ParseAnyFlag
    \/ ParseAnyPos
    \/ ParsePosArgs
    \/ ParseReturn
    \/ SecondAlone
    \/ StartTogether
    \/ Switch

PairSpec == PairInit /\ [][PairNext]_vars

-----------------------------------------------------------------------------
(* What the run's bookkeeping says about a state *)

\* parse has returned nil
Succeeded == pc = "done" /\ err = Nil

\* the number of tokens positional slot j has received
PosCount(j) ==
    Cardinality({i \in 1..Len(input) : took[i] = [kind |-> "pos", slot |-> posArgs[j].name]})

\* the positional slots that received fewer tokens than their own minimum
Unmet == {j \in 1..Len(posArgs) : PosCount(j) < posArgs[j].arity.min}

\* the sum of the maximum arities of the first j positional slots
RECURSIVE CumMax(_)
CumMax(j) == IF j = 0 THEN 0 ELSE posArgs[j].arity.max + CumMax(j - 1)

\* the first slot whose cumulative maximum exceeds k
SlotOfCount(k) ==
    CHOOSE j \in 1..Len(posArgs) : k < CumMax(j) /\ \A h \in 1..(j - 1) : ~(k < CumMax(h))

\* the registration index of the positional slot with the given name
SlotIdx(name) == CHOOSE j \in 1..Len(posArgs) : posArgs[j].name = name

\* the index of the first "--" the flag loop met, 0 if it met none
SepIdx ==
    IF \E i \in 1..Len(input) : took[i].kind = "sep"
    THEN CHOOSE i \in 1..Len(input) : took[i].kind = "sep"
    ELSE 0

-----------------------------------------------------------------------------
(* Claims *)

\* C1: when parse succeeds, every input token is accounted for: it is the
\* discarded "--", or it was marshaled into one flag slot or one positional
\* slot, or it was captured by the excess sink; no token is silently dropped.
C1_EveryTokenAccounted ==
    Succeeded => \A i \in 1..Len(input) : took[i].kind \in {"sep", "flag", "pos", "excess"}

\* C2: after the first "--" only the separator is discarded: every later
\* token the run has passed, starting with the one right after "--", was
\* delivered to a positional slot.
C2_AllAfterSeparatorPositional ==
    (SepIdx # 0 /\ err = Nil) =>
        \A i \in (SepIdx + 1)..(CurIdx - 1) : took[i].kind = "pos"

\* C3: the k-th assigned positional token goes to the first slot whose
\* cumulative maximum arity exceeds k.
C3_SlotByCumulativeMax ==
    [][numPos' = numPos + 1 =>
        took'[CurIdx] = [kind |-> "pos", slot |-> posArgs[SlotOfCount(numPos)].name]]_vars

\* C3: tokens assigned to an earlier slot precede tokens assigned to a later one.
C3_EarlierSlotsFirst ==
    \A i, j \in 1..Len(input) :
        (i < j /\ took[i].kind = "pos" /\ took[j].kind = "pos")
            => SlotIdx(took[i].slot) <= SlotIdx(took[j].slot)

\* C3: required A, optional B, zero-or-more D: [x, 12, x, y] gives A=x, B=12, D=[x, y].
C3_Example ==
    (sc = aritiesCmd /\ input = <<tX, tNum, tX, tY>> /\ pc = "done") =>
        /\ err = Nil
        /\ rec[3] = tX
        /\ rec[4] = 12
        /\ rec[5] = <<tX, tY>>

\* C3: the k-th successfully assigned positional token goes to the first slot i
\* with k less than the sum of the maximum arities of slots 0..i; so tokens of
\* an earlier slot precede tokens of a later slot, and for required A, optional
\* B, zero-or-more D four tokens give A, B and two elements of D.
C3_PositionalAssignment ==
    C3_SlotByCumulativeMax /\ []C3_EarlierSlotsFirst /\ []C3_Example

C3_Witness ==
    /\ Succeeded
    /\ sc = aritiesCmd
    /\ input = <<tX, tNum, tX, tY>>
    /\ took[4] = [kind |-> "pos", slot |-> <<"D">>]

\* C4: whenever parse returns success, every positional slot has received at
\* least its minimum arity of tokens.
C4_EverySlotMinimumMet ==
    Succeeded => Unmet = {}

\* C5: a "missing argument" error names the first slot in registration order
\* whose received count is below its own minimum.
C5_FirstUnmetSlotNamed ==
    (pc = "done" /\ err.msg = "missing argument") =>
        /\ Unmet # {}
        /\ err = userError("missing argument",
                           posArgs[CHOOSE j \in Unmet : \A h \in Unmet : j <= h].name)

\* C6: the value each "-name=value" token of the scenarios carries
C6_Expected(tok) ==
    CASE tok = tVtrue -> TRUE
      [] tok = tVfalse -> FALSE
      [] tok = tDx -> <<"x">>
      [] tok = tAddrEq -> << <<>> >>
      [] tok = tAddrPort -> << <<":", "4">> >>

\* C6: the field each "-name=value" token of the scenarios is bound to
C6_Field(tok) == IF tok = tDx THEN 2 ELSE 1

\* C6: one step on a "-name=value" token writes the value to the flag's field
\* and to nothing else, and takes that one token from the stream.
C6_Step ==
    [][(pc = "parseAny" /\ args # <<>>
            /\ Head(args) \in {tVtrue, tVfalse, tDx, tAddrEq, tAddrPort}) =>
        /\ err' = Nil
        /\ rec' = [rec EXCEPT ![C6_Field(Head(args))] = C6_Expected(Head(args))]
        /\ args' = Tail(args)
        /\ numPos' = numPos
        /\ took'[CurIdx].kind = "flag"]_vars

\* C6: the value handed to the conversion is the text after '=' also when it
\* is empty: "-d=" hands the empty text to the string conversion, which
\* rejects it (fmt.Sscan reads no word), and the parse ends there with the
\* field, the count and the following tokens as they were.
C6_EmptyValueStep ==
    [][(pc = "parseAny" /\ args # <<>> /\ Head(args) = tDeq) =>
        /\ err' = otherError("error setting flag", <<"d">>, "error parsing")
        /\ pc' = "done"
        /\ rec' = rec
        /\ numPos' = numPos
        /\ args' = Tail(args)]_vars

\* C6: "-v=true -v=false x": the last occurrence wins and x stays positional.
C6_Example ==
    (sc = simpleCmd /\ input = <<tVtrue, tVfalse, tX>> /\ pc = "done") =>
        /\ err = Nil
        /\ rec[1] = FALSE
        /\ rec[3] = tX

C7_Step ==
    [][(/\ pc = "parseAny" /\ args # <<>> /\ Head(args) \in {tV, tC, tSeed}
        /\ ~(excess # 0 /\ numPos >= CumMax(Len(posArgs)))) =>
        /\ err' = Nil
        /\ rec' = [rec EXCEPT ![1] = TRUE]
        /\ args' = Tail(args)
        /\ numPos' = numPos
        /\ pc' = pc]_vars

\* C7: "-v x" gives v = true and Arg = x.
C7_Example ==
    (sc = simpleCmd /\ input = <<tV, tX>> /\ pc = "done") =>
        /\ err = Nil
        /\ rec[1] = TRUE
        /\ rec[3] = tX
        /\ took[2] = [kind |-> "pos", slot |-> <<"A", "R", "G">>]

\* C7: a boolean flag given without "=value" sets its field to true and
\* consumes no further token: the token after it is processed as the next
\* flag or positional token.
C7_BoolFlagTakesNoToken == C7_Step /\ []C7_Example

C7_Witness ==
    /\ Succeeded
    /\ sc = simpleCmd
    /\ input = <<tV, tX>>
    /\ rec[1] = TRUE
    /\ rec[3] = tX

\* C8: a plain string flag given as "-d VALUE" takes VALUE, the next token, as
\* its value, and that token is consumed by the flag.
C8_NextTokenIsValue ==
    \A i \in 1..(Len(input) - 1) :
        (sc = torrentCmd /\ input[i] = tD /\ i < CurIdx
            /\ \A j \in 1..(i - 1) : took[j].kind \in {"flag", "pos"})
        => /\ took[i] = [kind |-> "flag", slot |-> <<"d">>]
           /\ CurIdx >= i + 2
           /\ (CurIdx = i + 2 => rec[2] = input[i + 1])

\* C9: "-addr" without '=' ends the parse with an error that says
\* "explicit value required"; the field, the count and the following tokens
\* are left as they were.
C9_NoValueStep ==
    [][(pc = "parseAny" /\ args # <<>> /\ Head(args) = tAddr) =>
        /\ pc' = "done"
        /\ err'.class \in {"user", "other"}
        /\ "explicit value required" \in {err'.msg, err'.cause}
        /\ rec' = rec
        /\ numPos' = numPos
        /\ took' = took
        /\ args' = Tail(args)]_vars

\* C9: "-addr=" and "-addr=:4" do not raise that error.
C9_ExplicitStep ==
    [][(pc = "parseAny" /\ args # <<>> /\ Head(args) \in {tAddrEq, tAddrPort}) =>
        "explicit value required" \notin {err'.msg, err'.cause}]_vars

\* C9: a flag whose type demands an explicit value, given as "-name" with no
\* '=', makes parse fail with an "explicit value required" error; the token
\* that follows is not taken as its value and the destination is not written;
\* "-name=" does not raise that error.
C9_ExplicitValueRequired == C9_NoValueStep /\ C9_ExplicitStep

C9_Witness ==
    /\ pc = "done"
    /\ input = <<tAddrPort, tAddr, tX>>
    /\ err.cause = "explicit value required"
    /\ rec[1] = << <<":", "4">> >>
    /\ args = <<tX>>
    /\ took[3].kind = "none"

\* C10: with no excess sink, a positional token that arrives when no positional slot has room
\* makes parse fail with the user error excess argument quoting that token;
\* no field is written and numPos does not change.
C10_ExcessArgument ==
    [][(/\ pc \in {"parseAny", "parsePosArgs"}
        /\ excess = 0
        /\ args # <<>>
        /\ (pc = "parsePosArgs" \/ Head(args)[1] # "-" \/ Len(Head(args)) = 1)
        /\ numPos >= CumMax(Len(posArgs))) =>
        /\ pc' = "done"
        /\ err' = userError("excess argument", Head(args))
        /\ rec' = rec
        /\ numPos' = numPos]_vars

C10_Witness ==
    /\ pc = "done"
    /\ sc = optReqCmd
    /\ input = <<tX, tY, tDash>>
    /\ err = userError("excess argument", tDash)
    /\ rec = << <<>>, tX, tY >>
    /\ numPos = 2

\* C11: the index of the first token the excess sink captured, 0 if none
C11_FirstCaptured ==
    IF \E i \in 1..Len(input) : took[i].kind = "excess"
    THEN CHOOSE i \in 1..Len(input) :
            took[i].kind = "excess" /\ \A h \in 1..(i - 1) : took[h].kind # "excess"
    ELSE 0

\* C11: with a sink registered, the step taken when no positional slot has
\* room stores all remaining tokens in the sink and ends the parse with
\* success; no flag and no count changes.
C11_CaptureStep ==
    [][(/\ excess # 0
        /\ pc \in {"parseAny", "parsePosArgs"}
        /\ args # <<>>
        /\ numPos >= CumMax(Len(posArgs))) =>
        /\ rec' = [rec EXCEPT ![excess] = args]
        /\ err' = Nil
        /\ pc' = "done"
        /\ numPos' = numPos]_vars

\* C11: after a successful parse the sink holds, verbatim and in order, the
\* tokens from the first captured one to the end; it is empty when none was.
C11_SinkHoldsRemainder ==
    (Succeeded /\ excess # 0) =>
        rec[excess] = IF C11_FirstCaptured = 0 THEN <<>>
                      ELSE SubSeq(input, C11_FirstCaptured, Len(input))

\* C11: "-v x -addr=hi x": the flag and the positional before the point are
\* parsed as usual, the rest goes to the sink.
C11_Example ==
    (sc = excessCmd /\ input = <<tV, tX, tAddrHi, tX>> /\ pc = "done") =>
        /\ err = Nil
        /\ rec = <<TRUE, <<>>, tX, <<tAddrHi, tX>> >>

\* C11: with an excess sink registered, once no positional slot can accept
\* another token all remaining tokens, flag-shaped ones included, are stored
\* in the sink verbatim and in order, none is parsed as a flag and parse
\* succeeds; what precedes that point is parsed normally, and with no token
\* left over the sink is empty.
C11_ExcessSinkCaptures ==
    C11_CaptureStep /\ []C11_SinkHoldsRemainder /\ []C11_Example

C11_Witness ==
    /\ Succeeded
    /\ sc = excessCmd
    /\ input = <<tV, tX, tAddrHi, tX>>
    /\ rec[4] = <<tAddrHi, tX>>
    /\ took[3].kind = "excess"

\* C12: the names of the flags a record's user registers: the exported,
\* marshalable fields before StartPos, by name tag or derived name
C12_UserFlags ==
    {structFieldFlag(sc.fields[i]) : i \in
        {i \in 1..Len(sc.fields) :
            /\ \A h \in 1..i : sc.fields[h].type \notin {"StartPos", "ExcessArgs"}
            /\ sc.fields[i].Name[1] \in Upper
            /\ canMarshal(sc.fields[i].type)}}
    \cup {structFieldFlag(f) : f \in
        {SubFields(sc.fields)[i] : i \in 1..Len(SubFields(sc.fields))}}

\* C12: the key of the first input token when it is a flag token
C12_Key == splitKey(Tail(input[1]))

\* C12: the key of a flag token resolves in this priority: a registered user
\* flag of that name is set (also when it is h or help); else, for h or help
\* with built-in help enabled, parse returns the help-requested outcome; else
\* parse fails with the user error unknown flag quoting the key. The last
\* case includes the derived name of an unexported field and h/help when
\* built-in help is disabled.  (Stated for the first token of the list.)
C12_KeyResolution ==
    (/\ Len(input) >= 1
     /\ isFlag(input[1]) /\ input[1] # tSep
     /\ took[1].kind # "excess"
     /\ (pc = "done" \/ CurIdx > 1)
     /\ CurIdx <= 2) =>
        IF C12_Key \in C12_UserFlags
        THEN took[1] = [kind |-> "flag", slot |-> C12_Key] \/ err.msg = "error setting flag"
        ELSE IF C12_Key \in {<<"h">>, <<"h", "e", "l", "p">>} /\ ~sc.noDefaultHelp
        THEN err = ErrDefaultHelp
        ELSE err = userError("unknown flag", C12_Key)

\* C13: parsing stops at the first failing token: the step that meets the
\* first error, panic or help request ends the parse with that outcome and
\* leaves the record and the positional count as the tokens before it made
\* them, and once parse has returned nothing is examined or written.
C13_StopsAtFirstFailure ==
    [][/\ pc # "done"
       /\ (err' # Nil => (pc' = "done" /\ rec' = rec /\ numPos' = numPos))]_vars

\* C14: every failure the tokens cause under a correct registry (unknown
\* flag, excess argument, missing argument, explicit value required, a value
\* that fails conversion) is returned in the user-error class, for flag values
\* and positional values alike.
C14_TokenFailuresAreUserErrors ==
    (/\ pc = "done"
     /\ err.class \notin {"nil", "help", "panic"}
     /\ (Len(args) < Len(input) \/ err.msg = "missing argument")) =>
        err.class = "user"

\* a token with the shape of a flag: a dash and at least one more character
FlagShaped(t) == Len(t) > 1 /\ t[1] = "-"

\* the number of tokens before input[i] that are not flag-shaped
BareBefore(i) == Cardinality({h \in 1..(i - 1) : ~FlagShaped(input[h])})

\* C15: a flag-shaped token met after one or more positional tokens, before
\* any "--" (and while the sink, if any, is not due), is handled as a flag: it
\* goes to no positional slot and the count does not move.
C15_FlagAfterPositionalStep ==
    [][(/\ pc = "parseAny" /\ args # <<>>
        /\ numPos >= 1
        /\ ~(excess # 0 /\ numPos >= CumMax(Len(posArgs)))
        /\ FlagShaped(Head(args)) /\ Head(args) # tSep) =>
        /\ numPos' = numPos
        /\ took'[CurIdx].kind # "pos"
        /\ (err' = Nil => took'[CurIdx].kind = "flag")]_vars

\* C15: in a successful parse without "--" every bare token is assigned as
\* if the flag tokens were absent: the bare token with k bare tokens before it
\* goes where the k-th positional token goes.
C15_AsIfFlagsAbsent ==
    (Succeeded /\ SepIdx = 0) =>
        \A i \in 1..Len(input) :
            took[i].kind = "pos" =>
                /\ ~FlagShaped(input[i])
                /\ took[i].slot = posArgs[SlotOfCount(BareBefore(i))].name

\* C15: "x 12 -c y" sets C = true, A = x, B = 12, D = [y].
C15_Example ==
    (sc = aritiesCmd /\ input = <<tX, tNum, tC, tY>> /\ pc = "done") =>
        /\ err = Nil
        /\ rec = <<TRUE, <<>>, tX, 12, <<tY>> >>

\* C15: in the default configuration a flag-shaped token that comes after one
\* or more positional tokens (and before any "--") is still parsed as a flag,
\* and the positional tokens before and after it are assigned to slots
\* exactly as if the flag token were absent.
C15_FlagsIntermixed ==
    C15_FlagAfterPositionalStep /\ []C15_AsIfFlagsAbsent /\ []C15_Example

C15_Witness ==
    /\ Succeeded
    /\ sc = aritiesCmd
    /\ input = <<tX, tNum, tC, tY>>
    /\ took[3] = [kind |-> "flag", slot |-> <<"c">>]
    /\ rec[5] = <<tY>>

C17_Bare(t) == ~FlagShaped(t)

\* C17: the integers the "-n=12" tokens among the first n tokens carry
C17_Ints(n) == [k \in 1..Cardinality({i \in 1..n : input[i] = tN12}) |-> 12]

\* C17: each token assigned to a slice slot appends exactly its element: the
\* flag slice N gets 12 from "-n=12", the positional slice Args gets the bare
\* token; "-n=x", whose element conversion fails, appends nothing.
C17_AppendStep ==
    [][(sc \in {sliceCmd, sliceCmdPreset} /\ pc # "done" /\ args # <<>>) =>
        CASE Head(args) = tN12 -> rec' = [rec EXCEPT ![1] = Append(rec[1], 12)] /\ err' = Nil
          [] Head(args) = tNx -> rec' = rec /\ err' # Nil
          [] OTHER -> rec' = [rec EXCEPT ![3] = Append(rec[3], Head(args))] /\ err' = Nil]_vars

\* C17: when parse has returned, each slice holds its prior contents followed
\* by the elements of the tokens assigned to it, in encounter order.
C17_PriorThenTokens ==
    (sc \in {sliceCmd, sliceCmdPreset} /\ pc = "done") =>
        LET n == IF err = Nil \/ err.msg = "missing argument"
                 THEN Len(input)
                 ELSE CurIdx - 2
        IN
        /\ rec[1] = InitialRec(sc)[1] \o C17_Ints(n)
        /\ rec[3] = InitialRec(sc)[3] \o SelectSeq(SubSeq(input, 1, n), C17_Bare)

\* C17: a slice-typed slot, flag or positional, appends one element per
\* successfully marshaled token and never overwrites: after t1..tn its value
\* is its prior contents followed by t1..tn in encounter order, and a token
\* whose element conversion fails appends nothing.
C17_SliceAppends == C17_AppendStep /\ []C17_PriorThenTokens

C17_Witness ==
    /\ Succeeded
    /\ sc = sliceCmdPreset
    /\ input = <<tX, tN12, tNum, tN12>>
    /\ rec[1] = <<7, 12, 12>>
    /\ rec[3] = <<tY, tX, tNum>>

\* C18: the dash prefix is cosmetic: "--v" has the effect and the outcome of
\* "-v" (the flag v is set to true, no error), here as the first token.
C18_DoubleDashSameAsSingle ==
    (sc = simpleCmd /\ Len(input) >= 1 /\ input[1] = tVV /\ CurIdx = 2) =>
        /\ err = Nil
        /\ rec[1] = TRUE
        /\ took[1] = [kind |-> "flag", slot |-> <<"v">>]

\* a positional field of unbounded maximum declared before another positional field
C19_UnboundedPrecedesAnother(fields) ==
    \E i, j \in 1..Len(fields) :
        /\ i < j
        /\ \E k \in 1..(i - 1) : fields[k].type = "StartPos"
        /\ canMarshal(fields[i].type) /\ canMarshal(fields[j].type)
        /\ fieldArity(fields[i]).max = infArity

\* C19: a record whose unbounded positional slot is registered before another
\* positional slot is rejected at registration with a configuration error,
\* before any token is consumed.
C19_UnboundedBeforeAnotherRejected ==
    C19_UnboundedPrecedesAnother(sc.fields) =>
        /\ pc = "done"
        /\ err # Nil /\ err.class # "user"
        /\ args = input

\* C20: the name two flag fields of the record share, and the handle of the
\* first of them; <<>> and 0 when no two flag fields share a name
C20_SharedName ==
    IF sc \in {dupCmd, nestedDupCmd} THEN <<"v">> ELSE <<>>

C20_FirstHandle == IF sc \in {dupCmd, nestedDupCmd} THEN 1 ELSE 0

\* C20: no two flags of the registry have the same name
C20_NamesUnique ==
    \A i, j \in 1..Len(flags) : flags[i].name = flags[j].name => i = j

\* C20: a record with a second flag field of an already registered name, at
\* the top level or in a nested struct, ends registration with an error that
\* is not a user error; the first registration stays and no token is parsed
C20_DuplicateRejected ==
    C20_SharedName # <<>> =>
        /\ pc = "done"
        /\ err = otherError("flag defined more than once", C20_SharedName, "")
        /\ flags[FlagIndex(flags, C20_SharedName)].fld = C20_FirstHandle
        /\ args = input
        /\ \A i \in 1..Len(input) : took[i] = NotTaken
        /\ rec = InitialRec(sc)

\* C20: the error is raised for no other record
C20_OnlyDuplicatesRejected ==
    err.msg = "flag defined more than once" => C20_SharedName # <<>>

\* C20: flag names are unique in every registry, and a field whose flag name is
\* already registered fails registration with a configuration error before any
\* token is parsed, the first registration being kept.
C20_FlagNamesUnique ==
    C20_NamesUnique /\ C20_DuplicateRejected /\ C20_OnlyDuplicatesRejected

C20_Witness ==
    /\ sc = nestedDupCmd
    /\ input = <<tV, tX>>
    /\ pc = "done"
    /\ err.msg = "flag defined more than once"
    /\ Len(flags) = 2

\* C21: the fields of the record tree in declaration order, a nested struct's
\* fields right after the field that holds it
RECURSIVE C21_Tree(_)
C21_Tree(fields) ==
    IF fields = <<>> THEN <<>>
    ELSE <<Head(fields)>> \o C21_Tree(Head(fields).sub) \o C21_Tree(Tail(fields))

\* C21: some field of the tree comes after an excess-sink field
C21_FieldAfterSink ==
    LET t == C21_Tree(sc.fields) IN
    \E i, j \in 1..Len(t) : i < j /\ t[i].type = "ExcessArgs"

\* C21: such a record is rejected at registration, whatever the tokens
C21_Rejected ==
    C21_FieldAfterSink =>
        /\ pc = "done"
        /\ err = ErrFieldsAfterExcessArgs
        /\ args = input
        /\ \A i \in 1..Len(input) : took[i] = NotTaken
        /\ rec = InitialRec(sc)

\* C21: a registry that parses tokens has at most one sink, the last field of the tree
C21_SinkIsLast ==
    (excess # 0 /\ err # ErrFieldsAfterExcessArgs) =>
        LET t == C21_Tree(sc.fields) IN
        /\ t[Len(t)].type = "ExcessArgs"
        /\ \A i \in 1..(Len(t) - 1) : t[i].type # "ExcessArgs"
        /\ AllFields(sc.fields)[excess].type = "ExcessArgs"

\* C21: a record whose excess-sink field is followed by any further field of
\* the record tree is rejected with the fields-after-excess-args error, also
\* for an empty token list; a sink that is registered is the only one and the
\* last field.
C21_NoFieldAfterExcessSink == C21_Rejected /\ C21_SinkIsLast

C21_Witness ==
    /\ sc = nestedAfterExcessCmd
    /\ input = <<>>
    /\ pc = "done"
    /\ err = ErrFieldsAfterExcessArgs
    /\ excess # 0

\* C23: the place of the start-of-positionals marker in the record tree, 0 if none
C23_Marker ==
    LET t == C21_Tree(sc.fields) IN
    IF \E i \in 1..Len(t) : t[i].type = "StartPos"
    THEN CHOOSE i \in 1..Len(t) :
            t[i].type = "StartPos" /\ \A h \in 1..(i - 1) : t[h].type # "StartPos"
    ELSE 0

\* C23: the marshalable fields of the tree, by place
C23_Marshalable ==
    LET t == C21_Tree(sc.fields) IN
    {i \in 1..Len(t) : t[i].type \notin {"StartPos", "ExcessArgs"} /\ canMarshal(t[i].type)}

\* C23: in a registry built without error, every marshalable field declared
\* before the start-of-positionals marker is a flag slot and every one
\* declared after it, in a nested record too, is a positional slot.
C23_PositionalModePermanent ==
    parseStruct(sc.fields).err = Nil =>
        LET t == C21_Tree(sc.fields) IN
        \A i \in C23_Marshalable :
            IF C23_Marker # 0 /\ i > C23_Marker
            THEN /\ \E p \in 1..Len(posArgs) : posArgs[p].name = posName(t[i])
                 /\ FlagIndex(flags, structFieldFlag(t[i])) = 0
            ELSE /\ FlagIndex(flags, structFieldFlag(t[i])) # 0
                 /\ \A p \in 1..Len(posArgs) : posArgs[p].name # posName(t[i])

\* C24: the top-level struct fields declared before the marker
C24_Records ==
    {i \in 1..Len(sc.fields) :
        /\ sc.fields[i].sub # <<>>
        /\ \A h \in 1..i : sc.fields[h].type \notin {"StartPos", "ExcessArgs"}}

\* C24: the name the claim gives the flag of child c of the struct field p
C24_Name(p, c) ==
    IF p.Anonymous THEN structFieldFlag(c)
    ELSE structFieldFlag(p) \o <<".">> \o structFieldFlag(c)

\* C24: in a registry built without error, the flags of a named nested record
\* are registered under the parent's flag name, a dot and the child's name,
\* and the flags of an embedded record under the child's name alone.
C24_NestedFlagNames ==
    parseStruct(sc.fields).err = Nil =>
        \A i \in C24_Records :
            \A j \in 1..Len(sc.fields[i].sub) :
                LET p == sc.fields[i]
                    c == p.sub[j]
                IN (c.type \notin {"StartPos", "ExcessArgs"} /\ canMarshal(c.type)) =>
                    /\ FlagIndex(flags, C24_Name(p, c)) # 0
                    /\ (~p.Anonymous => FlagIndex(flags, structFieldFlag(c)) = 0)

\* C25: the name the claim derives from an identifier: the leading run of
\* upper-case letters lower-cased as a unit, the capital of a following
\* capitalised word kept
C25_Derived(id) ==
    LET u == RunLen(id, Upper) IN
    IF u = Len(id) THEN ToLower(id)
    ELSE IF u >= 2 THEN ToLower(Take(id, u - 1)) \o Drop(id, u - 1)
    ELSE ToLower(Take(id, 1)) \o Drop(id, 1)

\* C25: every flag of the registry is named by its field's name tag, or by
\* the derived name when the tag is empty
C25_RegistryNames ==
    \A i \in 1..Len(flags) :
        LET sf == AllFields(sc.fields)[flags[i].fld] IN
        flags[i].name = IF sf.name # <<>> THEN sf.name ELSE C25_Derived(sf.Name)

\* C25: DHT, TCPAddr, NoUpload, NoIPv6 and V give dht, tcpAddr, noUpload, noIPv6 and v
C25_Examples ==
    sc = namesCmd =>
        [i \in 1..Len(flags) |-> flags[i].name] =
            << <<"d", "h", "t">>,
               <<"t", "c", "p", "A", "d", "d", "r">>,
               <<"n", "o", "U", "p", "l", "o", "a", "d">>,
               <<"n", "o", "I", "P", "v", "6">>,
               <<"v">> >>

RECURSIVE C26_Itoa(_)
C26_Itoa(n) ==
    LET d == <<"0", "1", "2", "3", "4", "5", "6", "7", "8", "9">>[(n % 10) + 1] IN
    IF n < 10 THEN <<d>> ELSE Append(C26_Itoa(n \div 10), d)

\* C26: the text of a value of a primitive type
C26_Text(t, v) ==
    CASE t = "bool" -> IF v THEN <<"t", "r", "u", "e">> ELSE <<"f", "a", "l", "s", "e">>
      [] t = "int64" -> C26_Itoa(v)
      [] OTHER -> v

\* C26: the tokens of one field: none for a default value, "-name=value" for a
\* primitive, one such token per element for a slice
C26_FieldTokens(sf, v) ==
    IF v = Zero(sf.type) THEN <<>>
    ELSE IF Kind(sf.type) = "Slice"
         THEN [i \in 1..Len(v) |->
                  <<"-">> \o structFieldFlag(sf) \o <<"=">> \o C26_Text(Elem(sf.type), v[i])]
         ELSE << <<"-">> \o structFieldFlag(sf) \o <<"=">> \o C26_Text(sf.type, v) >>

RECURSIVE C26_RenderFrom(_, _, _)
C26_RenderFrom(fields, R, i) ==
    IF i > Len(fields) THEN <<>>
    ELSE C26_FieldTokens(fields[i], R[i]) \o C26_RenderFrom(fields, R, i + 1)

C26_Render(R) == C26_RenderFrom(roundTripCmd.fields, R, 1)

\* C26: the record values of roundTripCmd that are rendered
C26_Records ==
    {<<v, d, n, l>> :
        v \in BOOLEAN, n \in {0, 12},
        d \in {<<>>, <<"x">>, <<"x", " ", "y">>},
        l \in {<<>>, << <<"y">> >>, << <<"y">>, <<"y">> >>}}

\* C26: rendering the non-default fields of a record as "-name=value" tokens
\* and parsing them into the zero record succeeds and gives the record back.
C26_RoundTrip ==
    \A R \in C26_Records :
        (sc = roundTripCmd /\ input = C26_Render(R) /\ pc = "done") =>
            (err = Nil /\ rec = R)

\* C27: for a registry built without error and any token list, parse ends
\* with success or an error value, never with a runtime fault.
C27_NeverPanics ==
    parseStruct(sc.fields).err = Nil => err.class # "panic"

\* C28: what the claim has a strategy report: a pointer's strategy reports
\* what its pointee's reports
RECURSIVE C28_Claimed(_)
C28_Claimed(m) ==
    CASE m.kind = "dynamic" -> m.explicitValueRequired
      [] m.kind = "ptr" -> C28_Claimed(m.inner)
      [] OTHER -> TRUE

\* C28: the strategy resolved for a pointer type requires an explicit value
\* exactly when its pointee's strategy requires one.
C28_PointerRequiresWhatPointeeRequires ==
    (call.pc \in {"ready", "done"} /\ call.m.kind = "ptr") =>
        call.req = C28_Claimed(call.m.inner)

\* C29: the flag key k is the key of some token of the list
C29_KeyAppears(k) ==
    \E i \in 1..Len(input) : isFlag(input[i]) /\ splitKey(Tail(input[i])) = k

\* C29: the positional slot p was handed a token that failed to convert
C29_FailedAt(p) ==
    /\ pc = "done"
    /\ err.msg = "error parsing"
    /\ indexPosArg(posArgs, numPos) = p

\* C29: a field whose flag key is in no token holds the value it had before the call
C29_FlagFrame ==
    \A j \in 1..Len(flags) :
        ~C29_KeyAppears(flags[j].name) =>
            rec[flags[j].fld] = InitialRec(sc)[flags[j].fld]

\* C29: a positional slot that was handed no token holds the value it had before the call
C29_PosFrame ==
    \A p \in 1..Len(posArgs) :
        (numPos <= CumMax(p - 1) /\ ~C29_FailedAt(p)) =>
            rec[posArgs[p].fld] = InitialRec(sc)[posArgs[p].fld]

\* C29: a parse writes only the destinations of slots a token was matched to:
\* a field whose flag key never appears and a positional slot that received no
\* token keep their values (a nil pointer stays nil, a slice keeps its
\* contents), whether the parse succeeds or fails.
C29_UnmatchedFieldsKept == C29_FlagFrame /\ C29_PosFrame

C29_Witness ==
    /\ sc = sliceCmdPreset
    /\ input = <<tX, tX>>
    /\ pc = "done"
    /\ rec[1] = <<7>>
    /\ rec[3] = <<tY, tX, tX>>

\* C30: a call that fails with a conversion error on a scalar or pointer
\* destination leaves the destination holding the value it had before.
C30_FailedMarshalKeepsValue ==
    (/\ call.pc = "done"
     /\ call.m # NoMarshaler
     /\ call.err # Nil
     /\ Kind(call.t) \in {"Int64", "String", "Bool", "Ptr"}) =>
        call.v = call.old

\* C22: the outcome an invocation of the pair had when it ran alone
C22_Solo(w) == IF w = "A" THEN par.soloA ELSE par.soloB

\* C22: whichever invocation has returned holds its own solo outcome
C22_SameAsAlone ==
    par.phase = "together" =>
        /\ pc = "done" => [rec |-> rec, err |-> err] = C22_Solo(par.who)
        /\ par.other.pc = "done" =>
              [rec |-> par.other.rec, err |-> par.other.err] =
                  C22_Solo(IF par.who = "A" THEN "B" ELSE "A")

\* C22: a step of one invocation changes nothing of the waiting one
C22_StepIsolated ==
    [][(par.phase = "together" /\ par'.who = par.who) => par'.other = par.other]_vars

====
